---- MODULE Spec2Model ----
(***************************************************************************)
(* Model of datasetcomputing/main.py: build_subset (node/edge filtering    *)
(* with optional ancestor closure), topo_order (Kahn's algorithm with a    *)
(* sorted completion for residual cycles) and compute_depths (multi-source *)
(* breadth-first depth), run in the order main() runs them.                *)
(*                                                                         *)
(* Identities are strings in the program; here an identity is a sequence   *)
(* of character codes, so that list.sort() is the lexicographic order.     *)
(* Python's None is the string NoneVal for string-valued fields and the    *)
(* empty sequence for identities (both are falsy in the program).          *)
(***************************************************************************)
EXTENDS Integers, Sequences, FiniteSets, TLC

VARIABLES
  nodes,              \* raw node records, as load_graph returns them
  edges,              \* raw edge records
  subset_suffix,      \* filter configuration of build_subset
  restrict_namespace,
  include_ancestors,
  pc,                 \* position in main()
  node_map,           \* retained nodes, in dict insertion order
  E,                  \* final edge list (child, parent, predicate)
  roots,              \* roots list returned by build_subset
  order,              \* result of topo_order
  kahn_len,           \* len(order) when the Kahn queue ran empty
  depth,              \* depth dict of compute_depths
  dq,                 \* deque of compute_depths
  enq,                \* how many times each node was appended to dq
  lowered             \* how many times an existing depth entry was overwritten

vars == <<nodes, edges, subset_suffix, restrict_namespace, include_ancestors,
          pc, node_map, E, roots, order, kahn_len, depth, dq, enq, lowered>>

-----------------------------------------------------------------------------
(* Values *)

NoneVal == "<None>"
NoId == <<>>

\* the identities "A", "AA", "B", "C" as character codes: "A" < "AA" < "B" < "C"
Ids == {<<1>>, <<1, 1>>, <<2>>, <<3>>}
\* the identities of the inputs that vary the node list
SmallIds == {<<1>>, <<1, 1>>, <<2>>}

Falsy(s) == s = NoneVal \/ s = ""

SLIM == "goslim_drosophila"
BP == "biological_process"
MF == "molecular_function"

\* keep_pred default of build_subset
keep_pred == {"is_a", "part_of"}

\* Longest raw edge list of the ordering inputs
MaxEdges == 3
\* Longest raw edge list of the depth inputs
MaxDepthEdges == 4
\* Longest raw edge list of the filter inputs
MaxFilterEdges == 2

-----------------------------------------------------------------------------
(* Helpers on sequences *)

Range(s) == {s[i] : i \in DOMAIN s}

Perms(S) ==
  {s \in [1..Cardinality(S) -> S] : \A i, j \in DOMAIN s : i /= j => s[i] /= s[j]}

SeqsUpTo(S, n) == UNION {[1..k -> S] : k \in 0..n}

\* str.__lt__ on identities: lexicographic by character code, a proper prefix first
RECURSIVE IdLess(_, _)
IdLess(a, b) ==
  IF a = <<>> THEN b /= <<>>
  ELSE IF b = <<>> THEN FALSE
  ELSE IF Head(a) /= Head(b) THEN Head(a) < Head(b)
  ELSE IdLess(Tail(a), Tail(b))

-----------------------------------------------------------------------------
(* Normalization helpers *)

\* pred_name on the predicate spellings the inputs use
pred_name(p) ==
  IF Falsy(p) THEN ""
  ELSE IF p = "is_a" THEN "is_a"
  ELSE IF p = "http://purl.obolibrary.org/obo/BFO_0000050" THEN "part_of"
  ELSE IF p = "http://purl.obolibrary.org/obo/BFO_0000051" THEN "has_part"
  ELSE p

\* in_subset: some IRI of meta.subsets ends with the suffix
in_subset(n, suffix) == suffix \in n.subsets

-----------------------------------------------------------------------------
(* build_subset *)

Keys(nm) == {nm[i].id : i \in DOMAIN nm}
KeySeq(nm) == [i \in DOMAIN nm |-> nm[i].id]

\* node_map[nid] = {...}: a new key goes last, an existing key keeps its place
DictSet(nm, rec) ==
  IF rec.id \in Keys(nm)
  THEN [i \in DOMAIN nm |-> IF nm[i].id = rec.id THEN rec ELSE nm[i]]
  ELSE Append(nm, rec)

NodeRec(n) == [id |-> n.id, namespace |-> n.ns]

\* the namespace test of the initial pass: reject a truthy, differing tag
PassRejects(ns, restrict) == ~Falsy(restrict) /\ ~Falsy(ns) /\ ns /= restrict

\* a walk that forgets the namespace restriction
ClosureAcceptsAll(ns, restrict) == TRUE

\* the namespace test of the ancestor walk
ClosureAccepts(ns, restrict) == Falsy(restrict) \/ ns = NoneVal \/ ns = restrict

\* initial pass over the raw nodes: [nm |-> node_map, seeds |-> slim_seeds]
RECURSIVE InitialPass(_, _, _, _)
InitialPass(ns, suffix, restrict, acc) ==
  IF ns = <<>> THEN acc
  ELSE LET n == Head(ns)
           next ==
             IF n.id = NoId THEN acc
             ELSE IF PassRejects(n.ns, restrict) THEN acc
             ELSE IF ~Falsy(suffix)
               THEN IF in_subset(n, suffix)
                    THEN [nm |-> DictSet(acc.nm, NodeRec(n)),
                          seeds |-> acc.seeds \cup {n.id}]
                    ELSE acc
               ELSE [nm |-> DictSet(acc.nm, NodeRec(n)), seeds |-> acc.seeds]
       IN InitialPass(Tail(ns), suffix, restrict, next)

\* raw_edges: normalized edges with a kept predicate
RECURSIVE RawEdges(_)
RawEdges(es) ==
  IF es = <<>> THEN <<>>
  ELSE LET e == Head(es)
           p == pred_name(e.pred)
       IN (IF e.subj /= NoId /\ e.obj /= NoId /\ p \in keep_pred
           THEN <<<<e.subj, e.obj, p>>>> ELSE <<>>) \o RawEdges(Tail(es))

\* parents[c]
Parents(raw, c) == {raw[i][2] : i \in {j \in DOMAIN raw : raw[j][1] = c}}

\* node_raw_lookup: the last raw record of an identity wins
InRawLookup(ns, p) == \E i \in DOMAIN ns : ns[i].id = p
RawLookup(ns, p) == ns[CHOOSE i \in DOMAIN ns :
                         ns[i].id = p /\ \A j \in DOMAIN ns : ns[j].id = p => j <= i]

\* the body of "for p in parents[u]" for the not-yet-visited parents in
\* iteration order s
RECURSIVE AddAncestors(_, _, _, _)
AddAncestors(s, nm, ns, restrict) ==
  IF s = <<>> THEN nm
  ELSE LET p == Head(s)
           add == /\ p \notin Keys(nm)
                  /\ InRawLookup(ns, p)
                  /\ ClosureAccepts(RawLookup(ns, p).ns, restrict)
       IN AddAncestors(Tail(s),
                       IF add THEN Append(nm, NodeRec(RawLookup(ns, p))) ELSE nm,
                       ns, restrict)

\* the while loop of the ancestor walk: every node_map some iteration order
\* of the parent sets can produce
RECURSIVE Walk(_, _, _, _, _, _)
Walk(frontier, visited, nm, raw, ns, restrict) ==
  IF frontier = <<>> THEN {nm}
  ELSE LET fresh == Parents(raw, Head(frontier)) \ visited
       IN UNION {Walk(Tail(frontier) \o s, visited \cup fresh,
                      AddAncestors(s, nm, ns, restrict), raw, ns, restrict)
                 : s \in Perms(fresh)}

\* the start orders of the frontier: a set is iterated in any order, the
\* dict keys in insertion order
Frontiers(pass, suffix) ==
  IF ~Falsy(suffix) /\ pass.seeds /= {} THEN Perms(pass.seeds) ELSE {KeySeq(pass.nm)}

\* every node_map build_subset can return
NodeMaps(ns, es, suffix, restrict, anc) ==
  LET pass == InitialPass(ns, suffix, restrict, [nm |-> <<>>, seeds |-> {}])
  IN IF anc
     THEN UNION {Walk(f, Range(f), pass.nm, RawEdges(es), ns, restrict)
                 : f \in Frontiers(pass, suffix)}
     ELSE {pass.nm}

\* a trim that looks at the child only
TrimChildOnly(raw, nm) == SelectSeq(raw, LAMBDA e : e[1] \in Keys(nm))

\* E: the raw edges entirely within node_map
Trim(raw, nm) == SelectSeq(raw, LAMBDA e : e[1] \in Keys(nm) /\ e[2] \in Keys(nm))

\* in_edges keys and out_edges
HasInEdges(ed, n) == \E i \in DOMAIN ed : ed[i][1] = n
RECURSIVE OutEdges(_, _)
OutEdges(ed, u) ==
  IF ed = <<>> THEN <<>>
  ELSE (IF Head(ed)[2] = u THEN <<Head(ed)[1]>> ELSE <<>>) \o OutEdges(Tail(ed), u)

Roots(nm, ed) == SelectSeq(KeySeq(nm), LAMBDA n : ~HasInEdges(ed, n))

-----------------------------------------------------------------------------
(* topo_order *)

Indeg0(ed) == [n \in Ids |-> Cardinality({i \in DOMAIN ed : ed[i][1] = n})]

\* for v in children[u]: indeg[v] -= 1; if indeg[v] == 0: Q.append(v)
RECURSIVE Release(_, _, _)
Release(ch, indeg, Q) ==
  IF ch = <<>> THEN [indeg |-> indeg, Q |-> Q]
  ELSE LET v == Head(ch)
           d == indeg[v] - 1
       IN Release(Tail(ch), [indeg EXCEPT ![v] = d],
                  IF d = 0 THEN Append(Q, v) ELSE Q)

\* while Q: ...
RECURSIVE KahnLoop(_, _, _, _)
KahnLoop(Q, ord, indeg, ed) ==
  IF Q = <<>> THEN ord
  ELSE LET u == Head(Q)
           r == Release(OutEdges(ed, u), indeg, Tail(Q))
       IN KahnLoop(r.Q, Append(ord, u), r.indeg, ed)

Kahn(keys, ed) ==
  KahnLoop(SelectSeq(keys, LAMBDA n : Indeg0(ed)[n] = 0), <<>>, Indeg0(ed), ed)

\* a completion that leaves the remaining nodes in insertion order
SortIdsSkipped(s) == s

\* remaining.sort()
SortIds(s) == SortSeq(s, IdLess)

\* a completion that forgets to leave out the emitted nodes
CompletionOfAll(keys, ord) ==
  IF Len(ord) < Len(keys) THEN ord \o SortIds(keys) ELSE ord

\* the stable completion after the queue ran empty
Completion(keys, ord) ==
  IF Len(ord) < Len(keys)
  THEN ord \o SortIds(SelectSeq(keys, LAMBDA n : n \notin Range(ord)))
  ELSE ord

-----------------------------------------------------------------------------
(* compute_depths *)

\* a visit that records the depth of u for its children
RECURSIVE VisitNoIncrement(_, _, _)
VisitNoIncrement(ch, d, st) ==
  IF ch = <<>> THEN st
  ELSE LET v == Head(ch)
           known == v \in DOMAIN st.depth
       IN IF ~known \/ d + 1 < st.depth[v]
          THEN VisitNoIncrement(Tail(ch), d,
                     [depth |-> (v :> d) @@ st.depth,
                      dq |-> Append(st.dq, v),
                      enq |-> [st.enq EXCEPT ![v] = @ + 1],
                      lowered |-> st.lowered + (IF known THEN 1 ELSE 0)])
          ELSE VisitNoIncrement(Tail(ch), d, st)

\* a visit that compares with <= instead of <
RECURSIVE VisitLaxCompare(_, _, _)
VisitLaxCompare(ch, d, st) ==
  IF ch = <<>> THEN st
  ELSE LET v == Head(ch)
           known == v \in DOMAIN st.depth
       IN IF ~known \/ d + 1 <= st.depth[v]
          THEN VisitLaxCompare(Tail(ch), d,
                     [depth |-> (v :> (d + 1)) @@ st.depth,
                      dq |-> Append(st.dq, v),
                      enq |-> [st.enq EXCEPT ![v] = @ + 1],
                      lowered |-> st.lowered + (IF known THEN 1 ELSE 0)])
          ELSE VisitLaxCompare(Tail(ch), d, st)

\* for v, _t in out_edges.get(u, []): ...
RECURSIVE Visit(_, _, _)
Visit(ch, d, st) ==
  IF ch = <<>> THEN st
  ELSE LET v == Head(ch)
           known == v \in DOMAIN st.depth
       IN IF ~known \/ d + 1 < st.depth[v]
          THEN Visit(Tail(ch), d,
                     [depth |-> (v :> (d + 1)) @@ st.depth,
                      dq |-> Append(st.dq, v),
                      enq |-> [st.enq EXCEPT ![v] = @ + 1],
                      lowered |-> st.lowered + (IF known THEN 1 ELSE 0)])
          ELSE Visit(Tail(ch), d, st)

-----------------------------------------------------------------------------
(* Inputs *)

HAS_PART == "http://purl.obolibrary.org/obo/BFO_0000051"

Plain(i) == [id |-> i, ns |-> NoneVal, subsets |-> {}]

\* the attributes a filter that is switched off never reads keep one value
\* (two for the namespace, to have tagged nodes without a restriction)
TaggedNodes(suffix, restrict) ==
  [id : SmallIds,
   ns : IF Falsy(restrict) THEN {NoneVal, MF} ELSE {NoneVal, "", BP, MF},
   subsets : IF Falsy(suffix) THEN {{}} ELSE {{}, {SLIM}}]

UniqueIds(ns) == \A i, j \in DOMAIN ns : i /= j => ns[i].id /= ns[j].id
Ascending(ns) == \A i, j \in DOMAIN ns : i < j => IdLess(ns[i].id, ns[j].id)

IsA(c, p) == [subj |-> c, obj |-> p, pred |-> "is_a"]

Start ==
  /\ pc = "start"
  /\ node_map = <<>>
  /\ E = <<>>
  /\ roots = <<>>
  /\ order = <<>>
  /\ kahn_len = 0
  /\ depth = <<>>
  /\ dq = <<>>
  /\ enq = [n \in Ids |-> 0]
  /\ lowered = 0

\* filter inputs: tagged nodes with distinct identities in ascending order,
\* every filter configuration, is_a edges and one has_part edge
Init ==
  /\ subset_suffix \in {NoneVal, SLIM}
  /\ restrict_namespace \in {NoneVal, BP}
  /\ include_ancestors \in BOOLEAN
  /\ nodes \in {s \in SeqsUpTo(TaggedNodes(subset_suffix, restrict_namespace),
                                Cardinality(SmallIds)) : Ascending(s)}
  /\ edges \in SeqsUpTo(({IsA(c, p) : c, p \in SmallIds} \ {IsA(c, c) : c \in SmallIds})
                         \cup {[subj |-> <<1>>, obj |-> <<2>>, pred |-> HAS_PART]},
                         MaxFilterEdges)
  /\ Start

\* ordering inputs: untagged nodes with distinct identities in any order, one
\* of them possibly without identity, no filter, any is_a edges and one edge
\* without subject
InitGraph ==
  /\ subset_suffix = NoneVal
  /\ restrict_namespace = NoneVal
  /\ include_ancestors = FALSE
  /\ nodes \in {s \in SeqsUpTo({Plain(i) : i \in SmallIds \cup {NoId}},
                                Cardinality(SmallIds)) : UniqueIds(s)}
  /\ edges \in SeqsUpTo({IsA(c, p) : c, p \in SmallIds} \cup {IsA(NoId, <<1>>)},
                         MaxEdges)
  /\ Start

\* depth inputs: the four untagged nodes (compute_depths never compares
\* identities, so one input order stands for all) or no node at all, no
\* filter, any is_a edges between two nodes and one self-loop
InitDepth ==
  /\ subset_suffix = NoneVal
  /\ restrict_namespace = NoneVal
  /\ include_ancestors = FALSE
  /\ nodes \in {s \in [1..Cardinality(Ids) -> {Plain(i) : i \in Ids}] : Ascending(s)}
               \cup {<<>>}
  /\ edges \in SeqsUpTo(({IsA(c, p) : c, p \in Ids} \ {IsA(c, c) : c \in Ids})
                         \cup {IsA(<<3>>, <<3>>)},
                         MaxDepthEdges)
  /\ Start

-----------------------------------------------------------------------------
(* Actions *)

\* build_subset(nodes, edges, ...)
BuildSubset ==
  /\ pc = "start"
  /\ \E nm \in NodeMaps(nodes, edges, subset_suffix, restrict_namespace,
                        include_ancestors) :
       /\ node_map' = nm
       /\ E' = Trim(RawEdges(edges), nm)
       /\ roots' = Roots(nm, Trim(RawEdges(edges), nm))
  /\ pc' = "built"
  /\ UNCHANGED <<nodes, edges, subset_suffix, restrict_namespace,
                 include_ancestors, order, kahn_len, depth, dq, enq, lowered>>

\* main: no node survived the filters, exit 2
EmptyExit ==
  /\ pc = "built"
  /\ node_map = <<>>
  /\ pc' = "exit2"
  /\ UNCHANGED <<nodes, edges, subset_suffix, restrict_namespace,
                 include_ancestors, node_map, E, roots, order, kahn_len,
                 depth, dq, enq, lowered>>

\* order = topo_order(node_map, E)
TopoOrder ==
  /\ pc = "built"
  /\ node_map /= <<>>
  /\ kahn_len' = Len(Kahn(KeySeq(node_map), E))
  /\ order' = Completion(KeySeq(node_map), Kahn(KeySeq(node_map), E))
  /\ pc' = "sorted"
  /\ UNCHANGED <<nodes, edges, subset_suffix, restrict_namespace,
                 include_ancestors, node_map, E, roots, depth, dq, enq, lowered>>

\* a loop over the roots that counts depth from 1
DepthInitOneBased ==
  /\ pc = "sorted"
  /\ depth' = [r \in Range(roots) |-> 1]
  /\ dq' = roots
  /\ enq' = [n \in Ids |-> IF n \in Range(roots) THEN 1 ELSE 0]
  /\ pc' = "depth"
  /\ UNCHANGED <<nodes, edges, subset_suffix, restrict_namespace,
                 include_ancestors, node_map, E, roots, order, kahn_len, lowered>>

\* compute_depths: the loop over the roots
DepthInit ==
  /\ pc = "sorted"
  /\ depth' = [r \in Range(roots) |-> 0]
  /\ dq' = roots
  /\ enq' = [n \in Ids |-> IF n \in Range(roots) THEN 1 ELSE 0]
  /\ pc' = "depth"
  /\ UNCHANGED <<nodes, edges, subset_suffix, restrict_namespace,
                 include_ancestors, node_map, E, roots, order, kahn_len, lowered>>

\* compute_depths: one iteration of "while dq"
DepthStep ==
  /\ pc = "depth"
  /\ dq /= <<>>
  /\ LET u == Head(dq)
         st == Visit(OutEdges(E, u), depth[u],
                     [depth |-> depth, dq |-> Tail(dq), enq |-> enq,
                      lowered |-> lowered])
     IN /\ depth' = st.depth
        /\ dq' = st.dq
        /\ enq' = st.enq
        /\ lowered' = st.lowered
  /\ UNCHANGED <<nodes, edges, subset_suffix, restrict_namespace,
                 include_ancestors, pc, node_map, E, roots, order, kahn_len>>

\* compute_depths returns; main writes the outputs
DepthDone ==
  /\ pc = "depth"
  /\ dq = <<>>
  /\ pc' = "done"
  /\ UNCHANGED <<nodes, edges, subset_suffix, restrict_namespace,
                 include_ancestors, node_map, E, roots, order, kahn_len,
                 depth, dq, enq, lowered>>

Next ==
  \/ BuildSubset
  \/ EmptyExit
  \/ TopoOrder
  \/ DepthInit
  \/ DepthStep
  \/ DepthDone

Spec == Init /\ [][Next]_vars
SpecGraph == InitGraph /\ [][Next]_vars
SpecDepth == InitDepth /\ [][Next]_vars

-----------------------------------------------------------------------------
(* Notions the properties are stated in *)

Retained == Keys(node_map)
Sorted == pc \in {"sorted", "depth", "done"}
IndexOf(s, x) == CHOOSE i \in DOMAIN s : s[i] = x
IsPermutation(s, S) ==
  /\ Len(s) = Cardinality(S)
  /\ Range(s) = S

ParentsOf(ed, S) == {ed[i][2] : i \in {j \in DOMAIN ed : ed[j][1] \in S}}
ChildrenOf(ed, S) == {ed[i][1] : i \in {j \in DOMAIN ed : ed[j][2] \in S}}

\* S and everything reachable from S along child->parent edges
RECURSIVE UpClosure(_, _)
UpClosure(ed, S) ==
  IF ParentsOf(ed, S) \subseteq S THEN S ELSE UpClosure(ed, S \cup ParentsOf(ed, S))

\* the ancestors of n: reachable from n by one or more child->parent edges
Ancestors(ed, n) == UpClosure(ed, ParentsOf(ed, {n}))

\* the nodes within k parent->child hops of a root
RECURSIVE Within(_)
Within(k) ==
  IF k = 0 THEN Range(roots)
  ELSE Within(k - 1) \cup ChildrenOf(E, Within(k - 1))

MinHops(n) ==
  CHOOSE k \in 0..Cardinality(Ids) :
    n \in Within(k) /\ \A j \in 0..(k - 1) : n \notin Within(j)

\* what the initial pass alone retains, and the seeds of the ancestor walk
FirstPass ==
  InitialPass(nodes, subset_suffix, restrict_namespace, [nm |-> <<>>, seeds |-> {}])
Seeds == IF ~Falsy(subset_suffix) THEN FirstPass.seeds ELSE Keys(FirstPass.nm)
\* reachable from a seed by one or more kept raw child->parent edges
SeedAncestors == UpClosure(RawEdges(edges), ParentsOf(RawEdges(edges), Seeds))
RawNs(i) == RawLookup(nodes, i).ns

\* compute_depths run to its end, as a function of its arguments
RECURSIVE DepthLoop(_, _)
DepthLoop(st, ed) ==
  IF st.dq = <<>> THEN st.depth
  ELSE DepthLoop(Visit(OutEdges(ed, Head(st.dq)), st.depth[Head(st.dq)],
                       [st EXCEPT !.dq = Tail(st.dq)]), ed)
ComputeDepths(rs, ed) ==
  DepthLoop([depth |-> [r \in Range(rs) |-> 0], dq |-> rs,
             enq |-> [n \in Ids |-> 0], lowered |-> 0], ed)

-----------------------------------------------------------------------------
(* Properties *)

\* C1: in the Order of topo_order, every retained edge (child, parent) that is
\* not on a cycle (the parent cannot reach back to the child along retained
\* child->parent edges) has its child before its parent.
C1_ChildBeforeParent ==
  Sorted =>
    \A i \in DOMAIN E :
      E[i][1] \notin UpClosure(E, {E[i][2]}) =>
        IndexOf(order, E[i][1]) < IndexOf(order, E[i][2])

\* C2: the Order of topo_order is a permutation of exactly the retained node
\* identities: same length, every retained node once, nothing else.
C2_OrderIsPermutation ==
  Sorted => IsPermutation(order, Retained) /\ Len(order) = Len(node_map)

\* C2 witness: an order was produced for a graph with a duplicate edge, a
\* self-loop and a node the Kahn queue emitted.
C2_Witness ==
  /\ Sorted
  /\ \E i, j \in DOMAIN E : i /= j /\ E[i] = E[j]
  /\ \E i \in DOMAIN E : E[i][1] = E[i][2]
  /\ kahn_len > 0
  /\ Len(order) = 3

\* C3: every root has depth 0, every node reachable from a root along
\* parent->child edges has the minimum hop count as its depth, and a node
\* reachable from no root is absent from the mapping.
C3_DepthIsMinHops ==
  pc = "done" =>
    /\ \A r \in Range(roots) : r \in DOMAIN depth /\ depth[r] = 0
    /\ DOMAIN depth = Within(Cardinality(Ids))
    /\ \A n \in DOMAIN depth : depth[n] = MinHops(n)

\* C3 witness: a finished run with a node at depth 2 and a retained node that
\* no root reaches.
C3_Witness ==
  /\ pc = "done"
  /\ \E n \in DOMAIN depth : depth[n] = 2
  /\ \E n \in Retained : n \notin DOMAIN depth

\* C4: with include_ancestors, build_subset retains exactly the initially
\* retained nodes plus every ancestor of a seed (along kept raw edges) that
\* exists in the raw nodes and passes the namespace rule of the initial pass.
C4_AncestorClosure ==
  (pc /= "start" /\ include_ancestors) =>
    Retained = Keys(FirstPass.nm) \cup
               {p \in SeedAncestors :
                  InRawLookup(nodes, p) /\ ~PassRejects(RawNs(p), restrict_namespace)}

\* C5: Order and Depth are functions of the input and the configuration:
\* every iteration order of the unordered sets yields the same two outputs.
C5_Deterministic ==
  pc = "done" =>
    \A nm \in NodeMaps(nodes, edges, subset_suffix, restrict_namespace,
                       include_ancestors) :
      LET ed == Trim(RawEdges(edges), nm)
      IN /\ order = Completion(KeySeq(nm), Kahn(KeySeq(nm), ed))
         /\ depth = ComputeDepths(Roots(nm, ed), ed)

\* C6: the nodes the Kahn queue did not emit follow all queue-emitted nodes in
\* ascending lexicographic order, whatever their insertion order; when no
\* retained node has zero in-degree, Order is the sorted list of identities.
C6_SortedCompletion ==
  Sorted =>
    /\ kahn_len <= Len(order)
    /\ Range(SubSeq(order, kahn_len + 1, Len(order)))
         = Retained \ Range(SubSeq(order, 1, kahn_len))
    /\ \A i, j \in (kahn_len + 1)..Len(order) : i < j => IdLess(order[i], order[j])
    /\ (\A n \in Retained : HasInEdges(E, n)) =>
         /\ kahn_len = 0
         /\ \A i, j \in DOMAIN order : i < j => IdLess(order[i], order[j])

\* C6 witness: the queue emitted one node and left two, which node_map holds
\* in descending order.
C6_Witness ==
  /\ Sorted
  /\ kahn_len = 1
  /\ Len(order) = 3
  /\ \E i, j \in DOMAIN node_map :
       /\ i < j
       /\ IdLess(node_map[j].id, node_map[i].id)
       /\ {node_map[i].id, node_map[j].id} = {order[2], order[3]}

\* C7 as stated: under a namespace restriction every raw node without a
\* namespace tag is retained, and no node with a differing tag is.
C7_Original ==
  (pc /= "start" /\ ~Falsy(restrict_namespace)) =>
    \A i \in DOMAIN nodes :
      /\ Falsy(nodes[i].ns) => nodes[i].id \in Retained
      /\ (~Falsy(nodes[i].ns) /\ nodes[i].ns /= restrict_namespace)
           => nodes[i].id \notin Retained

\* C7 as amended: under a namespace restriction every raw node without a
\* namespace tag that satisfies the subset predicate (or when no predicate is
\* active) is retained, one that fails the predicate is retained only as an
\* ancestor of a seed under closure, and no node with a differing tag is
\* retained, by the initial pass or by the ancestor closure.
C7_NamespacePermissive ==
  (pc /= "start" /\ ~Falsy(restrict_namespace)) =>
    \A i \in DOMAIN nodes :
      /\ (Falsy(nodes[i].ns)
            /\ (Falsy(subset_suffix) \/ in_subset(nodes[i], subset_suffix)))
           => nodes[i].id \in Retained
      /\ (Falsy(nodes[i].ns)
            /\ ~(Falsy(subset_suffix) \/ in_subset(nodes[i], subset_suffix))
            /\ nodes[i].id \in Retained)
           => (include_ancestors /\ nodes[i].id \in SeedAncestors)
      /\ (~Falsy(nodes[i].ns) /\ nodes[i].ns /= restrict_namespace)
           => nodes[i].id \notin Retained

\* C7 witness: under a restriction with a subset predicate and closure, an
\* untagged seed is retained and its parent with a differing tag is not.
C7_Witness ==
  /\ pc = "built"
  /\ restrict_namespace = BP
  /\ subset_suffix = SLIM
  /\ include_ancestors
  /\ \E i, j \in DOMAIN nodes :
       /\ nodes[i].ns = NoneVal
       /\ nodes[i].id \in Seeds
       /\ nodes[i].id \in Retained
       /\ nodes[j].ns = MF
       /\ nodes[j].id \in ParentsOf(RawEdges(edges), {nodes[i].id})
       /\ nodes[j].id \notin Retained

\* C8 as stated: no node with a defined depth has a smaller depth than any of
\* its ancestors (along retained child->parent edges) with a defined depth.
C8_Original ==
  pc = "done" =>
    \A n \in DOMAIN depth :
      \A a \in Ancestors(E, n) \cap DOMAIN depth : depth[n] >= depth[a]

\* C8 as amended: a node without a parent has depth 0, and every other node
\* with a defined depth lies exactly one below its shallowest parent, so it is
\* at most one deeper than each of its parents with a defined depth.
C8_DepthBelowShallowestParent ==
  pc = "done" =>
    \A n \in DOMAIN depth :
      LET ps == ParentsOf(E, {n}) \cap DOMAIN depth
      IN IF ParentsOf(E, {n}) = {} THEN depth[n] = 0
         ELSE /\ \E a \in ps : depth[n] = depth[a] + 1
              /\ \A a \in ps : depth[n] <= depth[a] + 1

\* C8 witness: a finished run in which a node is shallower than one of its
\* ancestors in an acyclic graph.
C8_Witness ==
  /\ pc = "done"
  /\ \A n \in Retained : n \notin Ancestors(E, n)
  /\ \E n \in DOMAIN depth :
       \E a \in Ancestors(E, n) \cap DOMAIN depth : depth[n] < depth[a]

\* C9: every edge of the final edge list has both endpoints retained and a
\* kept kind, and every normalized raw edge of a kept kind with both endpoints
\* retained is in the final edge list.
C9_TrimmedEdges ==
  pc /= "start" =>
    /\ \A i \in DOMAIN E :
         E[i][1] \in Retained /\ E[i][2] \in Retained /\ E[i][3] \in keep_pred
    /\ \A i \in DOMAIN edges :
         (/\ edges[i].subj /= NoId
          /\ edges[i].obj /= NoId
          /\ pred_name(edges[i].pred) \in keep_pred
          /\ edges[i].subj \in Retained
          /\ edges[i].obj \in Retained)
           => <<edges[i].subj, edges[i].obj, pred_name(edges[i].pred)>> \in Range(E)

\* C9 witness: closure under a restriction rejected an ancestor that the raw
\* nodes hold, so a kept edge from a retained node to it was trimmed, while
\* another edge survived.
C9_Witness ==
  /\ pc = "built"
  /\ include_ancestors
  /\ restrict_namespace = BP
  /\ E /= <<>>
  /\ \E i \in DOMAIN edges :
       /\ edges[i].pred = "is_a"
       /\ edges[i].subj \in Retained
       /\ edges[i].obj \in SeedAncestors
       /\ edges[i].obj \notin Retained
       /\ InRawLookup(nodes, edges[i].obj)

\* C10: in compute_depths an existing depth entry is never overwritten (the
\* "d + 1 < depth[v]" branch is never taken for a node already in the
\* mapping), and every node is appended to the deque at most once.
C10_FirstDepthIsFinal ==
  /\ lowered = 0
  /\ \A n \in Ids : enq[n] <= 1

\* C10 witness: a finished run from two roots that met an already recorded
\* node again, from a parent that offered no smaller depth.
C10_Witness ==
  /\ pc = "done"
  /\ Len(roots) = 2
  /\ \E n \in DOMAIN depth :
       \E a, b \in ParentsOf(E, {n}) \cap DOMAIN depth :
         depth[a] + 1 = depth[n] /\ depth[b] + 1 > depth[n]

====
